---- MODULE Spec2Model ----
(***************************************************************************)
(* Spending-trend analysis of the Personal Finance Tracker API             *)
(* (handlers.GetSpendingTrends, calculateSpendingTrends,                   *)
(* getHistoricalAverage, calculatePrediction).                             *)
(*                                                                         *)
(* Instants are integers: TicksPerDay ticks per calendar day, counted from *)
(* 1970-01-01 00:00 UTC.  float64 values are modelled as exact rationals   *)
(* [num, den] in lowest terms, so the arithmetic below is the exact        *)
(* arithmetic of the formulas in the code, without binary rounding.        *)
(***************************************************************************)
EXTENDS Integers, Sequences, FiniteSets, TLC

VARIABLES
    categories,     \* table categories: set of rows [id, user_id, name, type]
    transactions,   \* table transactions: sequence of rows (index = id)
    now,            \* the clock (time.Now() of the server, NOW() of the store)
    query,          \* the HTTP query string of the request in flight
    userID,         \* c.GetInt("user_id") of the request in flight
    pc,             \* position of the handler
    req,            \* models.SpendingTrendsRequest after binding
    win,            \* startDate, endDate, prevStartDate, prevEndDate
    currentRows,    \* cursor of the current-window query
    prevRows,       \* cursor of the previous-window query
    prevSpending,   \* map[int]float64
    trends,         \* []models.SpendingTrend
    err,            \* the error calculateSpendingTrends returns
    response,       \* what c.JSON wrote
    fnArgs,         \* arguments of a direct call of the forecasting code
    fnResult,       \* its result
    calls           \* the invocations served side by side: for each its
                    \* gin.Context and the local variables of the handler

vars == <<categories, transactions, now, query, userID, pc, req, win,
          currentRows, prevRows, prevSpending, trends, err, response,
          fnArgs, fnResult, calls>>

store == <<categories, transactions>>

----------------------------------------------------------------------------
(* Bounds of the model *)

TicksPerDay == 2      \* resolution of the clock within one day
NumYears == 2         \* reference dates range over NumYears years from 2023-01-01
MaxTx == 2            \* rows of table transactions
MaxAmount == 12       \* amounts 0..MaxAmount in direct calls of the forecast

NULL == [none |-> TRUE]

----------------------------------------------------------------------------
(* Calendar: package time of the Go standard library, as used by the code *)

IsLeap(y) == (y % 4 = 0) /\ ((y % 100 # 0) \/ (y % 400 = 0))

\* time.daysIn
DaysIn(m, y) ==
    IF m = 2 THEN (IF IsLeap(y) THEN 29 ELSE 28)
    ELSE IF m \in {4, 6, 9, 11} THEN 30 ELSE 31

\* Days from 1970-01-01 to the civil date y-m-d (m in 1..12; d may lie
\* outside the month, as time.Date allows: it is added as a day count).
DaysFromCivil(y, m, d) ==
    LET yy  == IF m <= 2 THEN y - 1 ELSE y
        era == yy \div 400
        yoe == yy - era * 400
        mp  == IF m > 2 THEN m - 3 ELSE m + 9
        doy == (153 * mp + 2) \div 5 + d - 1
        doe == yoe * 365 + yoe \div 4 - yoe \div 100 + doy
    IN  era * 146097 + doe - 719468

\* The civil date [year, month, day] of a day number: t.Year(), t.Month(), t.Day()
CivilFromDays(z) ==
    LET zz  == z + 719468
        era == zz \div 146097
        doe == zz - era * 146097
        yoe == (doe - doe \div 1460 + doe \div 36524 - doe \div 146096) \div 365
        doy == doe - (365 * yoe + yoe \div 4 - yoe \div 100)
        mp  == (5 * doy + 2) \div 153
        d   == doy - (153 * mp + 2) \div 5 + 1
        m   == IF mp < 10 THEN mp + 3 ELSE mp - 9
        y   == yoe + era * 400 + (IF m <= 2 THEN 1 ELSE 0)
    IN  [year |-> y, month |-> m, day |-> d]

DayOf(t) == t \div TicksPerDay
TimeOfDay(t) == t % TicksPerDay

Year(t) == CivilFromDays(DayOf(t)).year
Month(t) == CivilFromDays(DayOf(t)).month
Day(t) == CivilFromDays(DayOf(t)).day

\* t.Weekday(): Sunday = 0 ... Saturday = 6 (1970-01-01 was a Thursday)
Weekday(t) == (DayOf(t) + 4) % 7

\* time.Date(y, m, d, 0, 0, 0, 0, loc): month and day are normalised, so month
\* 13 is January of the next year and month 0 December of the year before.
GoDate(y, m, d) ==
    LET m0 == m - 1
        ny == y + (m0 \div 12)
        nm == (m0 % 12) + 1
    IN  DaysFromCivil(ny, nm, d) * TicksPerDay

\* t.AddDate(years, months, days): Date(year+years, month+months, day+days)
\* with the time of day of t.
AddDate(t, years, months, days) ==
    GoDate(Year(t) + years, Month(t) + months, Day(t) + days) + TimeOfDay(t)

----------------------------------------------------------------------------
(* Date strings: sequences of one-character strings *)

Digits == <<"0", "1", "2", "3", "4", "5", "6", "7", "8", "9">>

IsDigit(c) == \E i \in 1..10 : Digits[i] = c
DigitVal(c) == (CHOOSE i \in 1..10 : Digits[i] = c) - 1
DigitChar(n) == Digits[n + 1]

\* time.Time.Format("2006-01-02")
FormatDate(t) ==
    LET c == CivilFromDays(DayOf(t))
    IN  << DigitChar(c.year \div 1000), DigitChar((c.year \div 100) % 10),
           DigitChar((c.year \div 10) % 10), DigitChar(c.year % 10), "-",
           DigitChar(c.month \div 10), DigitChar(c.month % 10), "-",
           DigitChar(c.day \div 10), DigitChar(c.day % 10) >>

\* time.Parse("2006-01-02", s): [ok, t]; four digits, "-", two digits, "-",
\* two digits, nothing else; the month in 1..12 and the day in the month.
ParseDate(s) ==
    IF /\ Len(s) = 10
       /\ s[5] = "-" /\ s[8] = "-"
       /\ \A i \in {1, 2, 3, 4, 6, 7, 9, 10} : IsDigit(s[i])
    THEN LET y == DigitVal(s[1]) * 1000 + DigitVal(s[2]) * 100
                  + DigitVal(s[3]) * 10 + DigitVal(s[4])
             m == DigitVal(s[6]) * 10 + DigitVal(s[7])
             d == DigitVal(s[9]) * 10 + DigitVal(s[10])
         IN  IF m \in 1..12 /\ d >= 1 /\ d <= DaysIn(m, y)
             THEN [ok |-> TRUE, t |-> GoDate(y, m, d)]
             ELSE [ok |-> FALSE, t |-> 0]
    ELSE [ok |-> FALSE, t |-> 0]

----------------------------------------------------------------------------
(* float64 values as exact rationals *)

RECURSIVE GCD(_, _)
GCD(a, b) == IF b = 0 THEN a ELSE GCD(b, a % b)

Abs(n) == IF n < 0 THEN -n ELSE n

\* n/d in lowest terms with a positive denominator (d # 0)
Rat(n, d) ==
    LET g == GCD(Abs(n), Abs(d))
        s == IF d < 0 THEN -1 ELSE 1
    IN  [num |-> (s * n) \div g, den |-> (s * d) \div g]

Zero == Rat(0, 1)
RAdd(a, b) == Rat(a.num * b.den + b.num * a.den, a.den * b.den)
RSub(a, b) == Rat(a.num * b.den - b.num * a.den, a.den * b.den)
RMul(a, b) == Rat(a.num * b.num, a.den * b.den)
RDiv(a, b) == Rat(a.num * b.den, a.den * b.num)
RLess(a, b) == a.num * b.den < b.num * a.den

----------------------------------------------------------------------------
(* calculateSpendingTrends: the windows *)

\* The switch on period: [ok, startDate, endDate, prevStartDate, prevEndDate]
\* for the parsed reference date.
\* Sunday left as weekday 0: C3 tells it from the code's
WeekdaySundayFirst(date) == Weekday(date)

WeekdayMondayFirst(date) ==
    IF Weekday(date) = 0 THEN 7 ELSE Weekday(date)

\* The month window with a previous window of 30 days, and with a current
\* window of 30 days: C1 and C2 tell each from the code's.
MonthWindowPrev30Days(date) ==
    LET startDate == GoDate(Year(date), Month(date), 1)
    IN  [ok |-> TRUE,
         startDate |-> startDate,
         endDate |-> AddDate(startDate, 0, 1, 0),
         prevStartDate |-> AddDate(startDate, 0, 0, -30),
         prevEndDate |-> startDate]

MonthWindowPlus30Days(date) ==
    LET startDate == GoDate(Year(date), Month(date), 1)
    IN  [ok |-> TRUE,
         startDate |-> startDate,
         endDate |-> AddDate(startDate, 0, 0, 30),
         prevStartDate |-> AddDate(startDate, 0, -1, 0),
         prevEndDate |-> startDate]

MonthWindow(date) ==
    LET startDate == GoDate(Year(date), Month(date), 1)
    IN  [ok |-> TRUE,
         startDate |-> startDate,
         endDate |-> AddDate(startDate, 0, 1, 0),
         prevStartDate |-> AddDate(startDate, 0, -1, 0),
         prevEndDate |-> startDate]

WeekWindow(date) ==
    LET weekday   == WeekdayMondayFirst(date)
        monday    == AddDate(date, 0, 0, -(weekday - 1))
        startDate == GoDate(Year(monday), Month(monday), Day(monday))
    IN  [ok |-> TRUE,
         startDate |-> startDate,
         endDate |-> AddDate(startDate, 0, 0, 7),
         prevStartDate |-> AddDate(startDate, 0, 0, -7),
         prevEndDate |-> startDate]

\* The day window taken as the day that ends at the reference date: C25
\* tells it from the code's
DayWindowEndingAtDate(date) ==
    LET endDate == GoDate(Year(date), Month(date), Day(date))
    IN  [ok |-> TRUE,
         startDate |-> AddDate(endDate, 0, 0, -1),
         endDate |-> endDate,
         prevStartDate |-> AddDate(endDate, 0, 0, -2),
         prevEndDate |-> AddDate(endDate, 0, 0, -1)]

DayWindow(date) ==
    LET startDate == GoDate(Year(date), Month(date), Day(date))
    IN  [ok |-> TRUE,
         startDate |-> startDate,
         endDate |-> AddDate(startDate, 0, 0, 1),
         prevStartDate |-> AddDate(startDate, 0, 0, -1),
         prevEndDate |-> startDate]

NoWindow ==
    [ok |-> FALSE, startDate |-> 0, endDate |-> 0,
     prevStartDate |-> 0, prevEndDate |-> 0]

ComputeWindows(period, date) ==
    CASE period = "day"   -> DayWindow(date)
      [] period = "week"  -> WeekWindow(date)
      [] period = "month" -> MonthWindow(date)
      [] OTHER            -> NoWindow

----------------------------------------------------------------------------
(* The store's answers to the queries *)

\* FROM C LEFT JOIN T ON ...: matches[c] holds the ids of the rows of T that
\* satisfy the ON condition with c.  Every such pair is a row, and each c
\* without one gives a row whose t columns are NULL (tid = 0).
LeftJoin(C, matches) ==
    UNION { IF matches[c] = {} THEN {[c |-> c, tid |-> 0]}
            ELSE {[c |-> c, tid |-> i] : i \in matches[c]}
          : c \in C }

Null == [null |-> TRUE, v |-> 0]
NotNull(n) == [null |-> FALSE, v |-> n]

\* SUM(t.amount) over the rows of one group: NULL when every t is NULL
RECURSIVE SumRows(_, _)
SumRows(T, rows) ==
    IF rows = {} THEN Null
    ELSE LET r    == CHOOSE x \in rows : TRUE
             rest == SumRows(T, rows \ {r})
         IN  IF r.tid = 0 THEN rest
             ELSE IF rest.null THEN NotNull(T[r.tid].amount)
             ELSE NotNull(T[r.tid].amount + rest.v)

Coalesce(n, d) == IF n.null THEN d ELSE n.v

\* GROUP BY c.id, c.name with COALESCE(SUM(t.amount), 0)
GroupSum(T, rows) ==
    { [id |-> c.id, name |-> c.name,
       amount |-> Coalesce(SumRows(T, {r \in rows : r.c = c}), 0)]
      : c \in {r.c : r \in rows} }

\* currentQuery and prevQuery share FROM, ON, WHERE and the grouping:
\* the rows c.id, c.name, COALESCE(SUM(t.amount), 0) for the window [from, to)
\* The ON condition with the window closed at its end: C5 tells it from the code's
TrendOnClosed(uid, from, to, c, t) ==
    /\ c.id = t.category_id
    /\ t.user_id = uid
    /\ t.type = "expense"
    /\ t.date >= from
    /\ t.date <= to

\* The ON condition without t.user_id = $1, every transaction of the
\* category counted: C28 tells it from the code's
TrendOnAnyOwner(uid, from, to, c, t) ==
    /\ c.id = t.category_id
    /\ t.type = "expense"
    /\ t.date >= from
    /\ t.date < to

TrendOn(uid, from, to, c, t) ==
    /\ c.id = t.category_id
    /\ t.user_id = uid
    /\ t.type = "expense"
    /\ t.date >= from
    /\ t.date < to

TrendWhere(uid, r) == r.c.user_id = uid /\ r.c.type = "expense"

\* The conditions on t moved from ON to WHERE, where a row whose t columns
\* are NULL satisfies none of them: C4 tells it from the code's
TrendAggregateFilterInWhere(uid, from, to) ==
    LET matches == [c \in categories |->
                      {i \in DOMAIN transactions :
                          c.id = transactions[i].category_id}]
        joined  == LeftJoin(categories, matches)
    IN  GroupSum(transactions,
                 {r \in joined :
                    /\ TrendWhere(uid, r)
                    /\ r.tid # 0
                    /\ transactions[r.tid].user_id = uid
                    /\ transactions[r.tid].type = "expense"
                    /\ transactions[r.tid].date >= from
                    /\ transactions[r.tid].date < to})

TrendAggregate(uid, from, to) ==
    LET matches == [c \in categories |->
                      {i \in DOMAIN transactions :
                          TrendOn(uid, from, to, c, transactions[i])}]
        joined  == LeftJoin(categories, matches)
    IN  GroupSum(transactions, {r \in joined : TrendWhere(uid, r)})

\* ORDER BY amount without DESC, the smallest amount first: C20 tells it
\* from the code's
OrderByAmountAsc(rows) ==
    LET n == Cardinality(rows)
    IN  { s \in [1..n -> rows] :
            /\ \A i, j \in 1..n : i # j => s[i] # s[j]
            /\ \A i \in 1..n, j \in 1..n : i < j => s[i].amount <= s[j].amount }

\* ORDER BY amount DESC: every order of the rows in which amounts do not
\* increase (the order of equal amounts is the store's choice)
OrderByAmountDesc(rows) ==
    LET n == Cardinality(rows)
    IN  { s \in [1..n -> rows] :
            /\ \A i, j \in 1..n : i # j => s[i] # s[j]
            /\ \A i \in 1..n, j \in 1..n : i < j => s[i].amount >= s[j].amount }

\* getHistoricalAverage: the lookback in days for the period
LookbackDays(period) ==
    CASE period = "day"   -> 30
      [] period = "week"  -> 84
      [] period = "month" -> 365
      [] OTHER            -> 0

RECURSIVE SumAmounts(_, _)
SumAmounts(T, ids) ==
    IF ids = {} THEN 0
    ELSE LET i == CHOOSE x \in ids : TRUE
         IN  T[i].amount + SumAmounts(T, ids \ {i})

\* SELECT COALESCE(AVG(amount), 0) FROM transactions WHERE user_id = $1 AND
\* category_id = $2 AND type = 'expense' AND date >= NOW() - INTERVAL 'n days'
HistoricalWhere(uid, cid, period, at, t) ==
    /\ t.user_id = uid
    /\ t.category_id = cid
    /\ t.type = "expense"
    /\ t.date >= at - LookbackDays(period) * TicksPerDay

\* The total divided by the number of days with a matching row, a mean of
\* per-day sums: C13 tells it from the code's
HistoricalAveragePerDay(uid, cid, period, at) ==
    LET m == {i \in DOMAIN transactions :
                HistoricalWhere(uid, cid, period, at, transactions[i])}
    IN  IF m = {} THEN Zero
        ELSE Rat(SumAmounts(transactions, m),
                 Cardinality({DayOf(transactions[i].date) : i \in m}))

HistoricalAverage(uid, cid, period, at) ==
    LET m =={i \in DOMAIN transactions :
                HistoricalWhere(uid, cid, period, at, transactions[i])}
    IN  IF m = {} THEN Zero
        ELSE Rat(SumAmounts(transactions, m), Cardinality(m))

----------------------------------------------------------------------------
(* calculatePrediction and the classification of a trend *)

currentWeight == Rat(4, 10)
trendWeight == Rat(4, 10)
historicalWeight == Rat(2, 10)
conservativeFactor == Rat(8, 10)

\* the trend factor: current - previous when previous > 0, else 0
TrendFactor(current, previous) ==
    IF RLess(Zero, previous) THEN RSub(current, previous) ELSE Zero

\* The historical term subtracted: C27 tells it from the code's
WeightedSumLessHistorical(current, previous, historical) ==
    RSub(RAdd(RMul(current, currentWeight),
              RMul(TrendFactor(current, previous), trendWeight)),
         RMul(historical, historicalWeight))

\* The trend and historical weights exchanged: C6 tells it from the code's
WeightedSumSwapped(current, previous, historical) ==
    RAdd(RAdd(RMul(current, currentWeight),
              RMul(TrendFactor(current, previous), historicalWeight)),
         RMul(historical, trendWeight))

\* the weighted sum before the check for a negative value
WeightedSum(current, previous, historical) ==
    RAdd(RAdd(RMul(current, currentWeight),
              RMul(TrendFactor(current, previous), trendWeight)),
         RMul(historical, historicalWeight))

\* The weighted value returned as it is, negative or not: C26 tells it from
\* the code's
ClampNever(prediction, current) == prediction

\* A prediction of 0 replaced as well: C7 tells it from the code's
ClampNonPositive(prediction, current) ==
    IF ~RLess(Zero, prediction) THEN RMul(current, conservativeFactor)
    ELSE prediction

\* "Ensure prediction is not negative"
ClampNegative(prediction, current) ==
    IF RLess(prediction, Zero) THEN RMul(current, conservativeFactor)
    ELSE prediction

calculatePrediction(current, previous, historical, period) ==
    ClampNegative(WeightedSum(current, previous, historical), current)

\* The thresholds themselves counted as a change: C8 tells it from the code's
DirectionInclusive(change) ==
    IF ~RLess(change, Rat(10, 1)) THEN "up"
    ELSE IF ~RLess(Rat(-10, 1), change) THEN "down"
    ELSE "stable"

\* change > 10 -> "up", change < -10 -> "down", else "stable"
Direction(change) ==
    IF RLess(Rat(10, 1), change) THEN "up"
    ELSE IF RLess(change, Rat(-10, 1)) THEN "down"
    ELSE "stable"

\* Spending after a previous spend of 0 reported as a rise of 100 percent:
\* C9 tells it from the code's
ClassifyNewIsUp(current, prevAmount) ==
    IF RLess(Zero, prevAmount)
    THEN LET change == RMul(RDiv(RSub(current, prevAmount), prevAmount),
                            Rat(100, 1))
         IN  [TrendDirection |-> Direction(change), ChangePercent |-> change]
    ELSE IF RLess(Zero, current)
    THEN [TrendDirection |-> "up", ChangePercent |-> Rat(100, 1)]
    ELSE [TrendDirection |-> "new", ChangePercent |-> Zero]

\* "Calculate trend direction and change": [TrendDirection, ChangePercent]
Classify(current, prevAmount) ==
    IF RLess(Zero, prevAmount)
    THEN LET change == RMul(RDiv(RSub(current, prevAmount), prevAmount),
                            Rat(100, 1))
         IN  [TrendDirection |-> Direction(change), ChangePercent |-> change]
    ELSE [TrendDirection |-> "new", ChangePercent |-> Zero]

\* One pass of the loop body after the row is scanned and the historical
\* average obtained: the models.SpendingTrend appended to trends.
BuildTrend(categoryID, categoryName, currentSpend, prevAmount, historicalAvg, period) ==
    LET k == Classify(currentSpend, prevAmount)
    IN  [CategoryID |-> categoryID,
         CategoryName |-> categoryName,
         CurrentSpend |-> currentSpend,
         PredictedSpend |->
             calculatePrediction(currentSpend, prevAmount, historicalAvg, period),
         TrendDirection |-> k.TrendDirection,
         ChangePercent |-> k.ChangePercent]

\* prevSpending[id]: the zero value for a key the map does not hold
MapGet(m, k) == IF k \in DOMAIN m THEN m[k] ELSE Zero

----------------------------------------------------------------------------
(* GetSpendingTrends, step by step *)

NoRequest == [Period |-> "", Date |-> <<>>]
NoResponse == [status |-> 0]
EmptyMap == [k \in {} |-> Zero]

\* The default of the date taken one day before the server's current date,
\* as a clock read in another time zone gives it: C21 tells it from the code's
BindDefaultDayBefore ==
    /\ pc = "bind"
    /\ IF query.period = ""
       THEN /\ response' = [status |-> 400, error |-> "binding"]
            /\ pc' = "done"
            /\ UNCHANGED req
       ELSE /\ req' = [Period |-> query.period,
                       Date |-> IF query.date = <<>>
                                THEN FormatDate(now - TicksPerDay)
                                ELSE query.date]
            /\ pc' = "calc"
            /\ UNCHANGED response
    /\ UNCHANGED <<store, now, query, userID, win, currentRows, prevRows,
                   prevSpending, trends, err, fnArgs, fnResult, calls>>

\* c.ShouldBindQuery(&req), the 400 answer when it fails, and the default
\* of req.Date.  Period is binding:"required": a missing or empty value fails.
Bind ==
    /\ pc = "bind"
    /\ IF query.period = ""
       THEN /\ response' = [status |-> 400, error |-> "binding"]
            /\ pc' = "done"
            /\ UNCHANGED req
       ELSE /\ req' = [Period |-> query.period,
                       Date |-> IF query.date = <<>> THEN FormatDate(now)
                                ELSE query.date]
            /\ pc' = "calc"
            /\ UNCHANGED response
    /\ UNCHANGED <<store, now, query, userID, win, currentRows, prevRows,
                   prevSpending, trends, err, fnArgs, fnResult, calls>>

\* time.Parse of dateStr and the switch on period
ParseAndWindows ==
    /\ pc = "calc"
    /\ LET p == ParseDate(req.Date)
           w == ComputeWindows(req.Period, p.t)
       IN  IF ~p.ok
           THEN /\ err' = "parse" /\ pc' = "respond" /\ UNCHANGED win
           ELSE IF ~w.ok
           THEN /\ err' = "invalid period" /\ pc' = "respond" /\ UNCHANGED win
           ELSE /\ win' = w /\ pc' = "queryCurrent" /\ UNCHANGED err
    /\ UNCHANGED <<store, now, query, userID, req, currentRows, prevRows,
                   prevSpending, trends, response, fnArgs, fnResult, calls>>

\* h.db.Query(currentQuery, userID, startDate, endDate)
QueryCurrent ==
    /\ pc = "queryCurrent"
    /\ \/ /\ err' = "db" /\ pc' = "respond" /\ UNCHANGED currentRows
       \/ /\ \E rows \in OrderByAmountDesc(
                    TrendAggregate(userID, win.startDate, win.endDate)) :
                currentRows' = rows
          /\ pc' = "queryPrev"
          /\ UNCHANGED err
    /\ UNCHANGED <<store, now, query, userID, req, win, prevRows,
                   prevSpending, trends, response, fnArgs, fnResult, calls>>

\* h.db.Query(prevQuery, userID, prevStartDate, prevEndDate): no ORDER BY
QueryPrev ==
    /\ pc = "queryPrev"
    /\ \/ /\ err' = "db" /\ pc' = "respond" /\ UNCHANGED prevRows
       \/ /\ prevRows' = TrendAggregate(userID, win.prevStartDate, win.prevEndDate)
          /\ pc' = "scanPrev"
          /\ UNCHANGED err
    /\ UNCHANGED <<store, now, query, userID, req, win, currentRows,
                   prevSpending, trends, response, fnArgs, fnResult, calls>>

\* for prevRows.Next() { Scan; prevSpending[categoryID] = amount }
ScanPrev ==
    /\ pc = "scanPrev"
    /\ prevSpending' = [id \in {r.id : r \in prevRows} |->
                          Rat((CHOOSE r \in prevRows : r.id = id).amount, 1)]
    /\ prevRows' = {}
    /\ pc' = "trendLoop"
    /\ UNCHANGED <<store, now, query, userID, req, win, currentRows,
                   trends, err, response, fnArgs, fnResult, calls>>

\* One pass of for currentRows.Next(): Scan, getHistoricalAverage (with the
\* fallback to the current spend when it fails), prediction, classification,
\* append.
TrendLoop ==
    /\ pc = "trendLoop"
    /\ currentRows # <<>>
    /\ LET row == Head(currentRows)
           cur == Rat(row.amount, 1)
       IN  \E histOk \in BOOLEAN :
             LET historicalAvg ==
                     IF histOk
                     THEN HistoricalAverage(userID, row.id, req.Period, now)
                     ELSE cur
             IN  trends' = Append(trends,
                     BuildTrend(row.id, row.name, cur,
                                MapGet(prevSpending, row.id),
                                historicalAvg, req.Period))
    /\ currentRows' = Tail(currentRows)
    /\ UNCHANGED <<store, now, query, userID, pc, req, win, prevRows,
                   prevSpending, err, response, fnArgs, fnResult, calls>>

\* return trends, nil
ReturnTrends ==
    /\ pc = "trendLoop"
    /\ currentRows = <<>>
    /\ err' = "nil"
    /\ pc' = "respond"
    /\ UNCHANGED <<store, now, query, userID, req, win, currentRows, prevRows,
                   prevSpending, trends, response, fnArgs, fnResult, calls>>

\* The error of a failed query dropped and the trends built so far sent with
\* 200: C11 tells it from the code's
RespondIgnoringQueryError ==
    /\ pc = "respond"
    /\ response' =
          IF err \notin {"nil", "db"}
          THEN [status |-> 500, error |-> "Failed to calculate spending trends"]
          ELSE [status |-> 200, Period |-> req.Period, Date |-> req.Date,
                Trends |-> trends]
    /\ pc' = "done"
    /\ UNCHANGED <<store, now, query, userID, req, win, currentRows, prevRows,
                   prevSpending, trends, err, fnArgs, fnResult, calls>>

\* GetSpendingTrends after calculateSpendingTrends returned: 500 on any
\* error, else 200 with the period, the date and the trends.
Respond ==
    /\ pc = "respond"
    /\ response' =
          IF err # "nil"
          THEN [status |-> 500, error |-> "Failed to calculate spending trends"]
          ELSE [status |-> 200, Period |-> req.Period, Date |-> req.Date,
                Trends |-> trends]
    /\ pc' = "done"
    /\ UNCHANGED <<store, now, query, userID, req, win, currentRows, prevRows,
                   prevSpending, trends, err, fnArgs, fnResult, calls>>

\* A direct call of the loop body's computation on given values
CallBuildTrend ==
    /\ pc = "call"
    /\ fnResult' = BuildTrend(1, "c1", fnArgs.current, fnArgs.previous,
                              fnArgs.historical, fnArgs.period)
    /\ pc' = "returned"
    /\ UNCHANGED <<store, now, query, userID, req, win, currentRows, prevRows,
                   prevSpending, trends, err, response, fnArgs, calls>>

----------------------------------------------------------------------------
(* Inputs *)

UserIds == {1, 2}
Types == {"expense", "income"}
Amounts == {10, 11}
Periods == {"day", "week", "month"}
QueryPeriods == Periods \cup {"year", ""}

\* Table categories: two expense categories and an income category of user
\* 1, and an expense category of user 2
CategoryTable ==
    { [id |-> 1, user_id |-> 1, name |-> "c1", type |-> "expense"],
      [id |-> 2, user_id |-> 1, name |-> "c2", type |-> "expense"],
      [id |-> 3, user_id |-> 1, name |-> "c3", type |-> "income"],
      [id |-> 4, user_id |-> 2, name |-> "c4", type |-> "expense"] }

\* 2024-01-01 00:00, a Monday and the first day of a month
Base == GoDate(2024, 1, 1)

\* the last tick of 2023, the first of 2024, and 2024-01-02 00:00
TxTimes == {Base - 1, Base, Base + TicksPerDay}

NowTimes == {Base + 2 * TicksPerDay + 1}

BadDates ==
    { <<"2", "0", "2", "4", "-", "0", "2", "-", "3", "0">>,
      <<"2", "0", "2", "3", "-", "0", "2", "-", "2", "9">>,
      <<"2", "0", "2", "4", "-", "1", "3", "-", "0", "1">>,
      <<"2", "0", "2", "4", "-", "0", "1", "-", "0", "0">>,
      <<"2", "0", "2", "4", "-", "1", "-", "1">>,
      <<"0", "1", "/", "0", "1", "/", "2", "0", "2", "4">>,
      <<"2", "0", "2", "4", "-", "0", "1", "-", "0", "1", "T">> }

TxRows ==
    [user_id : UserIds, category_id : {1, 2}, type : Types,
     amount : Amounts, date : TxTimes]

\* Tables of at most n rows, one table for each multiset of rows
TxRank(r) ==
    (((r.user_id * 8 + r.category_id) * 2
        + (IF r.type = "expense" THEN 0 ELSE 1)) * 64 + r.amount) * 64
    + (r.date - Base + 8)

TxTables(n) ==
    UNION { { s \in [1..k -> TxRows] :
                \A i \in 1..k, j \in 1..k : i < j => TxRank(s[i]) <= TxRank(s[j]) }
            : k \in 0..n }

\* The handler has been entered for one request; nothing has run yet.
Entered ==
    /\ pc = "bind"
    /\ req = NoRequest
    /\ win = NoWindow
    /\ currentRows = <<>>
    /\ prevRows = {}
    /\ prevSpending = EmptyMap
    /\ trends = <<>>
    /\ err = "nil"
    /\ response = NoResponse
    /\ fnArgs = NULL
    /\ fnResult = NULL
    /\ calls = <<>>

\* Every table of at most MaxTx rows with a well-formed request of user 1,
\* and every request (well-formed or not, of either user) on the tables of
\* at most one row.
Init ==
    /\ categories = CategoryTable
    /\ now \in NowTimes
    /\ \/ /\ transactions \in TxTables(MaxTx)
          /\ userID = 1
          /\ query \in [period : Periods, date : {FormatDate(Base)}]
       \/ /\ transactions \in TxTables(1)
          /\ userID \in UserIds
          /\ query \in [period : QueryPeriods,
                        date : {<<>>, FormatDate(Base)} \cup BadDates]
    /\ Entered

Next ==
    \/ Bind
    \/ ParseAndWindows
    \/ QueryCurrent
    \/ QueryPrev
    \/ ScanPrev
    \/ TrendLoop
    \/ ReturnTrends
    \/ Respond

Spec == Init /\ [][Next]_vars

\* The windows alone, for every reference date of NumYears years
RefDays ==
    DaysFromCivil(2023, 1, 1) .. DaysFromCivil(2023 + NumYears, 1, 1) - 1

InitWindows ==
    /\ categories = {}
    /\ transactions = <<>>
    /\ now \in NowTimes
    /\ userID = 1
    /\ query \in [period : QueryPeriods,
                  date : {FormatDate(d * TicksPerDay) : d \in RefDays}
                         \cup BadDates]
    /\ Entered

NextWindows == Bind \/ ParseAndWindows

SpecWindows == InitWindows /\ [][NextWindows]_vars

\* The forecast and the classification alone, on given values
FnAmounts == 0..MaxAmount \cup {80, 90, 100, 110, 1000}

InitPredict ==
    /\ categories = {}
    /\ transactions = <<>>
    /\ now \in NowTimes
    /\ userID = 1
    /\ query = [period |-> "", date |-> <<>>]
    /\ pc = "call"
    /\ req = NoRequest
    /\ win = NoWindow
    /\ currentRows = <<>>
    /\ prevRows = {}
    /\ prevSpending = EmptyMap
    /\ trends = <<>>
    /\ err = "nil"
    /\ response = NoResponse
    /\ fnArgs \in [current : {Rat(n, 1) : n \in FnAmounts},
                   previous : {Rat(n, 1) : n \in FnAmounts},
                   historical : {Rat(n, 2) : n \in 0..(2 * MaxAmount)}
                                \cup {Rat(n, 1) : n \in FnAmounts},
                   period : Periods]
    /\ fnResult = NULL
    /\ calls = <<>>

NextPredict == CallBuildTrend

SpecPredict == InitPredict /\ [][NextPredict]_vars

----------------------------------------------------------------------------
(* getHistoricalAverage alone, on stores with rows around the lookbacks *)

\* A direct call of getHistoricalAverage: (avg, err).  QueryRow(...).Scan
\* leaves avg at its zero value when it returns an error.
CallHistoricalAverage ==
    /\ pc = "call"
    /\ \E failed \in BOOLEAN :
          fnResult' =
             [avg |-> IF failed THEN Zero
                      ELSE HistoricalAverage(fnArgs.userID, fnArgs.categoryID,
                                             fnArgs.period, now),
              err |-> failed]
    /\ pc' = "returned"
    /\ UNCHANGED <<store, now, query, userID, req, win, currentRows, prevRows,
                   prevSpending, trends, err, response, fnArgs, calls>>

\* Dates one tick before and exactly at the start of each lookback, at the
\* call time, and one tick and one day after it
HistoryTimes ==
    UNION { { t - 30 * TicksPerDay - 1, t - 30 * TicksPerDay,
              t - 84 * TicksPerDay - 1, t - 84 * TicksPerDay,
              t - 365 * TicksPerDay - 1, t - 365 * TicksPerDay,
              t, t + 1, t + TicksPerDay } : t \in NowTimes }

\* Expense rows of category 1 of user 1 at those dates, and a row of the
\* other user, of the other category, and of type income inside each lookback
HistoryRows ==
    [user_id : {1}, category_id : {1}, type : {"expense"},
     amount : Amounts, date : HistoryTimes]
    \cup { [user_id |-> u, category_id |-> c, type |-> ty,
            amount |-> 10, date |-> t - 1]
           : u \in UserIds, c \in {1, 2}, ty \in Types, t \in NowTimes }

RowKey(r) ==
    (((r.date * 4 + r.user_id) * 4 + r.category_id) * 2
        + (IF r.type = "expense" THEN 0 ELSE 1)) * 16 + r.amount

\* Tables of at most n rows of R, one table for each multiset of rows
TablesOf(R, n) ==
    UNION { { s \in [1..k -> R] :
                \A i \in 1..k, j \in 1..k : i < j => RowKey(s[i]) <= RowKey(s[j]) }
            : k \in 0..n }

InitHistory ==
    /\ categories = CategoryTable
    /\ transactions \in TablesOf(HistoryRows, MaxTx)
    /\ now \in NowTimes
    /\ userID = 1
    /\ query = [period |-> "", date |-> <<>>]
    /\ pc = "call"
    /\ req = NoRequest
    /\ win = NoWindow
    /\ currentRows = <<>>
    /\ prevRows = {}
    /\ prevSpending = EmptyMap
    /\ trends = <<>>
    /\ err = "nil"
    /\ response = NoResponse
    /\ fnArgs \in [userID : {1}, categoryID : {1}, period : Periods]
    /\ fnResult = NULL
    /\ calls = <<>>

NextHistory == CallHistoricalAverage

SpecHistory == InitHistory /\ [][NextHistory]_vars

----------------------------------------------------------------------------
(* Invocations of GetSpendingTrends served side by side *)

\* net/http runs the handler of every request in a goroutine of its own
Invocations == {1, 2}

\* The variables of the single request above, which these invocations leave
\* alone
single == <<query, userID, pc, req, win, currentRows, prevRows, prevSpending,
            trends, err, response, fnArgs, fnResult>>

\* What getHistoricalAverage gave in the passes of the loop made so far, by
\* category: the instant NOW() of its query, whether it returned an error,
\* and historicalAvg as the prediction then used it
NoAverages == [k \in {} |-> [at |-> 0, failed |-> FALSE, historicalAvg |-> Zero]]

\* A query handed to the store by h.db.Query or h.db.QueryRow, and whether
\* the store answered it with an error
Issued(kind, categoryID, failed) ==
    [kind |-> kind, categoryID |-> categoryID, failed |-> failed]

\* An invocation on entry: its gin.Context (user_id, the query string, and
\* whether the context of the request is done), its local variables, the
\* queries it has handed to the store so far, in order, and the rows of
\* their results that it could not read
NewCall(uid, q) ==
    [userID |-> uid, query |-> q, ctxDone |-> FALSE, pc |-> "bind",
     req |-> NoRequest, win |-> NoWindow, currentRows |-> <<>>,
     prevSpending |-> EmptyMap, averages |-> NoAverages, trends |-> <<>>,
     err |-> "nil", response |-> NoResponse, issued |-> <<>>,
     rowErrors |-> {}]

Update(i, l) == calls' = [calls EXCEPT ![i] = l]

\* c.ShouldBindQuery(&req) and the default of req.Date
InvBind(i) ==
    LET l == calls[i]
    IN  /\ l.pc = "bind"
        /\ Update(i,
              IF l.query.period = ""
              THEN [l EXCEPT !.response = [status |-> 400, error |-> "binding"],
                             !.pc = "done"]
              ELSE [l EXCEPT !.req = [Period |-> l.query.period,
                                      Date |-> IF l.query.date = <<>>
                                               THEN FormatDate(now)
                                               ELSE l.query.date],
                             !.pc = "calc"])
        /\ UNCHANGED <<store, now, single>>

\* time.Parse of dateStr and the switch on period
InvParseAndWindows(i) ==
    LET l == calls[i]
        p == ParseDate(l.req.Date)
        w == ComputeWindows(l.req.Period, p.t)
    IN  /\ l.pc = "calc"
        /\ Update(i,
              IF ~p.ok THEN [l EXCEPT !.err = "parse", !.pc = "respond"]
              ELSE IF ~w.ok
              THEN [l EXCEPT !.err = "invalid period", !.pc = "respond"]
              ELSE [l EXCEPT !.win = w, !.pc = "queryCurrent"])
        /\ UNCHANGED <<store, now, single>>

\* The current-window query handed to the store a second time when the
\* first attempt failed: C23 tells it from the code's
InvQueryCurrentRetrying(i) ==
    LET l == calls[i]
        failed == Issued("current", 0, TRUE)
    IN  /\ l.pc = "queryCurrent"
        /\ \/ Update(i, [l EXCEPT !.err = "db", !.pc = "respond",
                                   !.issued = @ \o <<failed, failed>>])
           \/ \E rows \in OrderByAmountDesc(
                    TrendAggregate(l.userID, l.win.startDate, l.win.endDate)),
                 again \in BOOLEAN :
                 Update(i, [l EXCEPT
                    !.currentRows = rows, !.pc = "queryPrev",
                    !.issued = @ \o (IF again THEN <<failed>> ELSE <<>>)
                                 \o <<Issued("current", 0, FALSE)>>])
        /\ UNCHANGED <<store, now, single>>

\* h.db.Query(currentQuery, userID, startDate, endDate): the invocation is
\* at this position from the call until the store has answered
InvQueryCurrent(i) ==
    LET l == calls[i]
    IN  /\ l.pc = "queryCurrent"
        /\ \/ Update(i, [l EXCEPT !.err = "db", !.pc = "respond",
                                   !.issued = Append(@, Issued("current", 0, TRUE))])
           \/ \E rows \in OrderByAmountDesc(
                    TrendAggregate(l.userID, l.win.startDate, l.win.endDate)) :
                 Update(i, [l EXCEPT
                    !.currentRows = rows, !.pc = "queryPrev",
                    !.issued = Append(@, Issued("current", 0, FALSE))])
        /\ UNCHANGED <<store, now, single>>

\* h.db.Query(prevQuery, userID, prevStartDate, prevEndDate) and the loop
\* over prevRows that fills prevSpending
InvQueryPrev(i) ==
    LET l    == calls[i]
        rows == TrendAggregate(l.userID, l.win.prevStartDate, l.win.prevEndDate)
    IN  /\ l.pc = "queryPrev"
        /\ \/ Update(i, [l EXCEPT !.err = "db", !.pc = "respond",
                                   !.issued = Append(@, Issued("previous", 0, TRUE))])
           \/ Update(i, [l EXCEPT
                 !.prevSpending =
                     [id \in {r.id : r \in rows} |->
                         Rat((CHOOSE r \in rows : r.id = id).amount, 1)],
                 !.pc = "trendLoop",
                 !.issued = Append(@, Issued("previous", 0, FALSE))])
        /\ UNCHANGED <<store, now, single>>

\* The map of one place for all invocations, a field of the handler filled
\* by the first: C19 tells it from the code's
PrevSpendingShared(i) == calls[1].prevSpending

\* prevSpending := make(map[int]float64): a local variable of the invocation
PrevSpendingOf(i) == calls[i].prevSpending

\* The lookback counted back from the end of the current window of the
\* invocation: C15 tells it from the code's
HistoryInstantOfWindow(l) == l.win.endDate

\* NOW() of the query of getHistoricalAverage, which is given userID,
\* categoryID and period, and neither the reference date nor a window
HistoryInstant(l) == now

\* The zero value that getHistoricalAverage returns with its error, used as
\* it is: C12 tells it from the code's
HistoricalFallbackZero(currentSpend) == Zero

\* historicalAvg = trend.CurrentSpend // fallback
HistoricalFallback(currentSpend) == currentSpend

\* One pass of for currentRows.Next(), as TrendLoop
InvTrendLoop(i) ==
    LET l   == calls[i]
        row == Head(l.currentRows)
        cur == Rat(row.amount, 1)
    IN  /\ l.pc = "trendLoop"
        /\ l.currentRows # <<>>
        /\ \E histOk \in BOOLEAN :
              LET historicalAvg ==
                      IF histOk
                      THEN HistoricalAverage(l.userID, row.id, l.req.Period,
                                             HistoryInstant(l))
                      ELSE HistoricalFallback(cur)
              IN  Update(i, [l EXCEPT
                     !.trends = Append(l.trends,
                         BuildTrend(row.id, row.name, cur,
                                    MapGet(PrevSpendingOf(i), row.id),
                                    historicalAvg, l.req.Period)),
                     !.averages =
                         [k \in DOMAIN l.averages \cup {row.id} |->
                            IF k = row.id
                            THEN [at |-> now, failed |-> ~histOk,
                                  historicalAvg |-> historicalAvg]
                            ELSE l.averages[k]],
                     !.issued = Append(@, Issued("historical", row.id, ~histOk)),
                     !.currentRows = Tail(l.currentRows)])
        /\ UNCHANGED <<store, now, single>>

\* The trends returned written to the store as well, to be served again
\* later: C17 tells it from the code's
InvReturnTrendsStored(i) ==
    LET l == calls[i]
    IN  /\ l.pc = "trendLoop"
        /\ l.currentRows = <<>>
        /\ Update(i, [l EXCEPT !.err = "nil", !.pc = "respond"])
        /\ transactions' =
              Append(transactions,
                     [user_id |-> l.userID, category_id |-> 0,
                      type |-> "trends", amount |-> Len(l.trends),
                      date |-> now])
        /\ UNCHANGED <<categories, now, single>>

\* return trends, nil
InvReturnTrends(i) ==
    LET l == calls[i]
    IN  /\ l.pc = "trendLoop"
        /\ l.currentRows = <<>>
        /\ Update(i, [l EXCEPT !.err = "nil", !.pc = "respond"])
        /\ UNCHANGED <<store, now, single>>

\* GetSpendingTrends after calculateSpendingTrends returned
InvRespond(i) ==
    LET l == calls[i]
    IN  /\ l.pc = "respond"
        /\ Update(i, [l EXCEPT
              !.response =
                  IF l.err # "nil"
                  THEN [status |-> 500,
                        error |-> "Failed to calculate spending trends"]
                  ELSE [status |-> 200, Period |-> l.req.Period,
                        Date |-> l.req.Date, Trends |-> l.trends],
              !.pc = "done"])
        /\ UNCHANGED <<store, now, single>>

\* A store query of the invocation is outstanding
QueryOutstanding(l) ==
    \/ l.pc \in {"queryCurrent", "queryPrev"}
    \/ l.pc = "trendLoop" /\ l.currentRows # <<>>

\* The client goes away, or its deadline passes, while a query is
\* outstanding: the context of the request is done.  h.db.Query and
\* h.db.QueryRow are called without a context, and nothing in the handler
\* reads the context of the request.
Cancel(i) ==
    LET l == calls[i]
    IN  /\ QueryOutstanding(l)
        /\ ~l.ctxDone
        /\ Update(i, [l EXCEPT !.ctxDone = TRUE])
        /\ UNCHANGED <<store, now, single>>

\* Time passes between two steps
Tick ==
    /\ now \in NowTimes
    /\ now' = now + 1
    /\ UNCHANGED <<store, single, calls>>

\* The instant 30 days before the first call time
LookbackEdges == {t - 30 * TicksPerDay : t \in NowTimes}

\* Expense rows of user 1 in its two expense categories, dated at the start
\* of the reference day or at the start of the 30-day lookback
CallRows ==
    [user_id : {1}, category_id : {1, 2}, type : {"expense"}, amount : {10},
     date : {Base} \cup LookbackEdges]

\* 2024-01-01 and 2024-01-03, the day of the call
CallDates == {FormatDate(Base), FormatDate(Base + 2 * TicksPerDay)}

\* No single request is in flight
SingleIdle ==
    /\ userID = 1
    /\ query = [period |-> "", date |-> <<>>]
    /\ pc = "calls"
    /\ req = NoRequest
    /\ win = NoWindow
    /\ currentRows = <<>>
    /\ prevRows = {}
    /\ prevSpending = EmptyMap
    /\ trends = <<>>
    /\ err = "nil"
    /\ response = NoResponse
    /\ fnArgs = NULL
    /\ fnResult = NULL

\* Two invocations for the same period unit, the second of either user and
\* for either reference date, at one instant
InitCalls ==
    /\ categories = CategoryTable
    /\ transactions \in TablesOf(CallRows, MaxTx)
    /\ now \in NowTimes
    /\ \E p \in Periods, u2 \in UserIds, d2 \in CallDates :
          calls = [i \in Invocations |->
                     IF i = 1
                     THEN NewCall(1, [period |-> p, date |-> FormatDate(Base)])
                     ELSE NewCall(u2, [period |-> p, date |-> d2])]
    /\ SingleIdle

NextCalls ==
    \/ \E i \in DOMAIN calls : InvBind(i)
    \/ \E i \in DOMAIN calls : InvParseAndWindows(i)
    \/ \E i \in DOMAIN calls : InvQueryCurrent(i)
    \/ \E i \in DOMAIN calls : InvQueryPrev(i)
    \/ \E i \in DOMAIN calls : InvTrendLoop(i)
    \/ \E i \in DOMAIN calls : InvReturnTrends(i)
    \/ \E i \in DOMAIN calls : InvRespond(i)

SpecCalls == InitCalls /\ [][NextCalls]_vars

\* Two invocations with the same inputs, while time passes
InitRepeat ==
    /\ categories = CategoryTable
    /\ transactions \in TablesOf(CallRows, MaxTx)
    /\ now \in NowTimes
    /\ \E p \in Periods :
          calls = [i \in Invocations |->
                     NewCall(1, [period |-> p, date |-> FormatDate(Base)])]
    /\ SingleIdle

NextRepeat == NextCalls \/ Tick

SpecRepeat == InitRepeat /\ [][NextRepeat]_vars

\* One invocation whose request may be cancelled
InitCancel ==
    /\ categories = CategoryTable
    /\ transactions \in TablesOf(CallRows, MaxTx)
    /\ now \in NowTimes
    /\ \E p \in Periods, u \in UserIds, d \in CallDates :
          calls = [i \in {1} |-> NewCall(u, [period |-> p, date |-> d])]
    /\ SingleIdle

NextCancel == NextCalls \/ \E i \in DOMAIN calls : Cancel(i)

SpecCancel == InitCancel /\ [][NextCancel]_vars

----------------------------------------------------------------------------
(* Claims about the windows (SpecWindows) *)

WindowsComputed == pc = "queryCurrent"

OneDay == TicksPerDay
IsMidnight(t) == t % TicksPerDay = 0
IsFirstOfMonth(t) == IsMidnight(t) /\ Day(t) = 1
MonthIndex(t) == Year(t) * 12 + Month(t)

\* C1: for every period unit and reference date the previous window ends
\* where the current one starts, and both windows have the same calendar
\* length: one day for day, seven days for week, and for month each is one
\* calendar month (both start on the first of a month, the previous window
\* on the first of the month before the current one).
C1_AdjacentEqualLength ==
    WindowsComputed =>
        /\ win.prevEndDate = win.startDate
        /\ req.Period = "day" =>
              /\ win.endDate - win.startDate = OneDay
              /\ win.prevEndDate - win.prevStartDate = OneDay
        /\ req.Period = "week" =>
              /\ win.endDate - win.startDate = 7 * OneDay
              /\ win.prevEndDate - win.prevStartDate = 7 * OneDay
        /\ req.Period = "month" =>
              /\ IsFirstOfMonth(win.startDate)
              /\ IsFirstOfMonth(win.endDate)
              /\ IsFirstOfMonth(win.prevStartDate)
              /\ MonthIndex(win.endDate) = MonthIndex(win.startDate) + 1
              /\ MonthIndex(win.prevStartDate) = MonthIndex(win.startDate) - 1

\* A month window of a leap February: 29 days, after 31 days of January
C1_Witness ==
    /\ WindowsComputed
    /\ req.Period = "month"
    /\ win.endDate - win.startDate = 29 * OneDay
    /\ win.prevEndDate - win.prevStartDate = 31 * OneDay
    /\ win.prevEndDate = win.startDate

\* The year and month written in a well-formed date string
WrittenYear(s) ==
    DigitVal(s[1]) * 1000 + DigitVal(s[2]) * 100 + DigitVal(s[3]) * 10
    + DigitVal(s[4])
WrittenMonth(s) == DigitVal(s[6]) * 10 + DigitVal(s[7])
WrittenDay(s) == DigitVal(s[9]) * 10 + DigitVal(s[10])

FirstOf(y, m) == DaysFromCivil(y, m, 1) * TicksPerDay

LengthOfMonth(y, m) ==
    CASE m \in {1, 3, 5, 7, 8, 10, 12} -> 31
      [] m \in {4, 6, 9, 11} -> 30
      [] m = 2 /\ y % 4 = 0 /\ (y % 100 # 0 \/ y % 400 = 0) -> 29
      [] OTHER -> 28

\* C2: for period month the current window runs from the first day of the
\* reference month to the first day of the next calendar month, whatever the
\* length of the month, and the previous window is the whole month before;
\* for a date in January of Y these are [Y-01-01, Y-02-01) and
\* [(Y-1)-12-01, Y-01-01).
C2_MonthWindow ==
    (WindowsComputed /\ req.Period = "month") =>
        LET y == WrittenYear(req.Date)
            m == WrittenMonth(req.Date)
        IN  /\ win.startDate = FirstOf(y, m)
            /\ win.endDate = IF m = 12 THEN FirstOf(y + 1, 1) ELSE FirstOf(y, m + 1)
            /\ win.endDate - win.startDate = LengthOfMonth(y, m) * OneDay
            /\ win.prevStartDate =
                  IF m = 1 THEN FirstOf(y - 1, 12) ELSE FirstOf(y, m - 1)
            /\ win.prevEndDate = win.startDate
            /\ m = 1 => /\ win.startDate = FirstOf(y, 1)
                        /\ win.endDate = FirstOf(y, 2)
                        /\ win.prevStartDate = FirstOf(y - 1, 12)
                        /\ win.prevEndDate = FirstOf(y, 1)

\* Reference date 2024-01-15: [2024-01-01, 2024-02-01) and [2023-12-01, 2024-01-01)
C2_Witness ==
    /\ WindowsComputed
    /\ req.Period = "month"
    /\ req.Date = <<"2", "0", "2", "4", "-", "0", "1", "-", "1", "5">>
    /\ win.startDate = FirstOf(2024, 1)
    /\ win.endDate = FirstOf(2024, 2)
    /\ win.prevStartDate = FirstOf(2023, 12)
    /\ win.prevEndDate = FirstOf(2024, 1)

\* 2024-01-01 was a Monday
IsMonday(t) == (DayOf(t) - DaysFromCivil(2024, 1, 1)) % 7 = 0
IsSunday(t) == (DayOf(t) - DaysFromCivil(2024, 1, 7)) % 7 = 0

WrittenDate(s) ==
    DaysFromCivil(WrittenYear(s), WrittenMonth(s), WrittenDay(s)) * TicksPerDay

\* C3: for period week the current window starts at midnight of the Monday
\* of the week that contains the reference date, a Sunday belonging to the
\* week that started six days before it; the current window is 7 days long
\* and the previous window is the 7 days that end where it starts.
C3_WeekWindow ==
    (WindowsComputed /\ req.Period = "week") =>
        LET ref == WrittenDate(req.Date)
        IN  /\ IsMonday(win.startDate)
            /\ IsMidnight(win.startDate)
            /\ win.startDate <= ref
            /\ ref - win.startDate <= 6 * OneDay
            /\ IsSunday(ref) => win.startDate = ref - 6 * OneDay
            /\ win.endDate = win.startDate + 7 * OneDay
            /\ win.prevStartDate = win.startDate - 7 * OneDay
            /\ win.prevEndDate = win.startDate

\* Sunday 2023-01-01: the week started on Monday 2022-12-26
C3_Witness ==
    /\ WindowsComputed
    /\ req.Period = "week"
    /\ req.Date = <<"2", "0", "2", "3", "-", "0", "1", "-", "0", "1">>
    /\ IsSunday(WrittenDate(req.Date))
    /\ win.startDate = DaysFromCivil(2022, 12, 26) * TicksPerDay
    /\ win.endDate = DaysFromCivil(2023, 1, 2) * TicksPerDay
    /\ win.prevStartDate = DaysFromCivil(2022, 12, 19) * TicksPerDay

----------------------------------------------------------------------------
(* Claims about the aggregation (Spec) *)

Succeeded == response.status = 200

ExpenseCategoryIds(uid) ==
    {c.id : c \in {x \in categories : x.user_id = uid /\ x.type = "expense"}}

\* An expense transaction of uid in category cid dated in [from, to)
Counts(t, uid, cid, from, to) ==
    /\ t.user_id = uid
    /\ t.category_id = cid
    /\ t.type = "expense"
    /\ from <= t.date
    /\ t.date < to

\* The total of the first n rows of table transactions that count
RECURSIVE TotalOfFirst(_, _, _, _, _)
TotalOfFirst(n, uid, cid, from, to) ==
    IF n = 0 THEN 0
    ELSE TotalOfFirst(n - 1, uid, cid, from, to)
         + (IF Counts(transactions[n], uid, cid, from, to)
            THEN transactions[n].amount ELSE 0)

CurrentTotal(cid) ==
    TotalOfFirst(Len(transactions), userID, cid, win.startDate, win.endDate)
PreviousTotal(cid) ==
    TotalOfFirst(Len(transactions), userID, cid, win.prevStartDate, win.prevEndDate)

----------------------------------------------------------------------------
(* Claims about the forecast and the classification (SpecPredict) *)

Returned == pc = "returned"

\* The values of a call as fractions over one denominator, ArgDen:
\* current = ArgCurrent/ArgDen, previous = ArgPrevious/ArgDen,
\* historical = ArgHistorical/ArgDen
ArgDen == fnArgs.current.den * fnArgs.previous.den * fnArgs.historical.den
ArgCurrent == fnArgs.current.num * fnArgs.previous.den * fnArgs.historical.den
ArgPrevious == fnArgs.previous.num * fnArgs.current.den * fnArgs.historical.den
ArgHistorical == fnArgs.historical.num * fnArgs.current.den * fnArgs.previous.den

ArgTrendDelta == IF ArgPrevious > 0 THEN ArgCurrent - ArgPrevious ELSE 0

\* current*0.4 + trendDelta*0.4 + historical*0.2 = RawTenths / (10 * ArgDen)
RawTenths == 4 * ArgCurrent + 4 * ArgTrendDelta + 2 * ArgHistorical

\* C6: for non-negative current, previous and historical values the
\* predicted spend is current*0.4 + trendDelta*0.4 + historical*0.2 whenever
\* that value is not negative, trendDelta being current - previous when
\* previous > 0 and 0 otherwise.
C6_WeightedPrediction ==
    (Returned /\ RawTenths >= 0) =>
        fnResult.PredictedSpend.num * 10 * ArgDen
            = RawTenths * fnResult.PredictedSpend.den

\* current = 100, previous = 80, historical = 90: predicted = 66
C6_Witness ==
    /\ Returned
    /\ fnArgs.current = [num |-> 100, den |-> 1]
    /\ fnArgs.previous = [num |-> 80, den |-> 1]
    /\ fnArgs.historical = [num |-> 90, den |-> 1]
    /\ fnResult.PredictedSpend = [num |-> 66, den |-> 1]

C8_ChangeAndDirection ==
    (Returned /\ ArgPrevious > 0) =>
        LET rise == 100 * (ArgCurrent - ArgPrevious)
            d    == fnResult.TrendDirection
        IN  /\ fnResult.ChangePercent.num * ArgPrevious
                  = rise * fnResult.ChangePercent.den
            /\ d = "up" <=> rise > 10 * ArgPrevious
            /\ d = "down" <=> rise < -10 * ArgPrevious
            /\ d = "stable" <=> (rise <= 10 * ArgPrevious /\ rise >= -10 * ArgPrevious)
            /\ rise = 10 * ArgPrevious => d = "stable"
            /\ rise = -10 * ArgPrevious => d = "stable"

\* previous = 10, current = 9: exactly -10 percent, stable
C8_Witness ==
    /\ Returned
    /\ fnArgs.previous = [num |-> 10, den |-> 1]
    /\ fnArgs.current = [num |-> 9, den |-> 1]
    /\ fnResult.ChangePercent = [num |-> -10, den |-> 1]
    /\ fnResult.TrendDirection = "stable"

\* C9: for a previous spend of 0 the direction is new and the change 0
\* whatever the current spend, and the trend term adds nothing to the
\* prediction; new is given in no other case, and the direction is always
\* one of up, down, stable, new.
C9_NewCategory ==
    Returned =>
        /\ fnResult.TrendDirection \in {"up", "down", "stable", "new"}
        /\ fnResult.TrendDirection = "new" <=> ArgPrevious = 0
        /\ ArgPrevious = 0 =>
              /\ fnResult.ChangePercent.num = 0
              /\ fnResult.PredictedSpend.num * 10 * ArgDen
                    = (4 * ArgCurrent + 2 * ArgHistorical)
                      * fnResult.PredictedSpend.den

\* previous = 0 with a current spend, and the prediction 0.4*11 + 0.2*5
C9_Witness ==
    /\ Returned
    /\ fnArgs.previous = [num |-> 0, den |-> 1]
    /\ fnArgs.current = [num |-> 11, den |-> 1]
    /\ fnArgs.historical = [num |-> 5, den |-> 1]
    /\ fnResult.TrendDirection = "new"
    /\ fnResult.ChangePercent = [num |-> 0, den |-> 1]
    /\ fnResult.PredictedSpend = [num |-> 27, den |-> 5]

----------------------------------------------------------------------------
(* Claims about the answers to requests (Spec) *)

Answered == response.status # 0

\* A request without a period, with a period other than day, week, month,
\* or with a date that is no YYYY-MM-DD date
InvalidArgument ==
    \/ query.period \notin {"day", "week", "month"}
    \/ query.date \in BadDates

\* C10: a request whose period is missing or not one of day, week, month, or
\* whose date is no YYYY-MM-DD date, is answered with a client error, which
\* differs from the server error of a store failure, and with no trend list.
C10_InvalidArgumentIsClientError ==
    (Answered /\ InvalidArgument) =>
        /\ response.status \in 400..499
        /\ "Trends" \notin DOMAIN response

\* h.db.Query of the current or of the previous window returned an error
AggregationFailed == err = "db"

\* C11: when the query of the current window or the query of the previous
\* window fails, the call returns no trend record at all and the request is
\* answered with a server error that carries no trend list.
C11_AggregationFailureFailsCall ==
    AggregationFailed =>
        /\ trends = <<>>
        /\ Answered =>
              /\ response.status \in 500..599
              /\ "Trends" \notin DOMAIN response

\* The query of the previous window failed after the query of the current
\* window had returned rows
C11_Witness ==
    /\ Answered
    /\ AggregationFailed
    /\ currentRows # <<>>
    /\ response.status = 500

----------------------------------------------------------------------------
(* Claims about the historical average (SpecHistory) *)

HistoryReturned == pc = "returned" /\ ~fnResult.err

\* The lookback of the period unit in days
DaysBack(period) ==
    CASE period = "day" -> 30
      [] period = "week" -> 84
      [] period = "month" -> 365

\* The row counts towards the average of the call: an expense of the owner
\* in the category dated no earlier than the start of the lookback
InLookback(t) ==
    /\ t.user_id = fnArgs.userID
    /\ t.category_id = fnArgs.categoryID
    /\ t.type = "expense"
    /\ now - DaysBack(fnArgs.period) * OneDay <= t.date

\* Number and total of the first n rows of table transactions that count
RECURSIVE CountOfFirst(_)
CountOfFirst(n) ==
    IF n = 0 THEN 0
    ELSE CountOfFirst(n - 1) + (IF InLookback(transactions[n]) THEN 1 ELSE 0)

RECURSIVE AmountOfFirst(_)
AmountOfFirst(n) ==
    IF n = 0 THEN 0
    ELSE AmountOfFirst(n - 1)
         + (IF InLookback(transactions[n]) THEN transactions[n].amount ELSE 0)

\* C13: the historical average is the total of the amounts of the owner's
\* expense transactions of the category dated from 30 days (day), 84 days
\* (week) or 365 days (month) before the call, divided by the number of those
\* transactions, and 0 when there is none: a mean per transaction.
C13_MeanPerTransaction ==
    HistoryReturned =>
        LET n == Len(transactions)
        IN  /\ CountOfFirst(n) = 0 => fnResult.avg.num = 0
            /\ CountOfFirst(n) > 0 =>
                  fnResult.avg.num * CountOfFirst(n)
                     = AmountOfFirst(n) * fnResult.avg.den

\* Period week: a row exactly 84 days old and a row of 11 counted, a row one
\* tick older left out, and the mean 21/2 is not a whole amount
C13_Witness ==
    /\ HistoryReturned
    /\ fnArgs.period = "week"
    /\ \E i, j \in DOMAIN transactions :
          /\ i # j
          /\ InLookback(transactions[i]) /\ InLookback(transactions[j])
          /\ transactions[i].date = now - 84 * OneDay
    /\ fnResult.avg = [num |-> 21, den |-> 2]

\* The row counts towards the average and is dated no later than the call
InLookbackToNow(t) == InLookback(t) /\ t.date <= now

RECURSIVE CountToNow(_)
CountToNow(n) ==
    IF n = 0 THEN 0
    ELSE CountToNow(n - 1) + (IF InLookbackToNow(transactions[n]) THEN 1 ELSE 0)

RECURSIVE AmountToNow(_)
AmountToNow(n) ==
    IF n = 0 THEN 0
    ELSE AmountToNow(n - 1)
         + (IF InLookbackToNow(transactions[n]) THEN transactions[n].amount ELSE 0)

\* C14: the lookback ends at the call time: the historical average is the
\* mean of the transactions dated from now - lookback to now, so that a
\* transaction dated after the call time does not contribute to it.
C14_LookbackEndsAtNow ==
    HistoryReturned =>
        LET n == Len(transactions)
        IN  /\ CountToNow(n) = 0 => fnResult.avg.num = 0
            /\ CountToNow(n) > 0 =>
                  fnResult.avg.num * CountToNow(n)
                     = AmountToNow(n) * fnResult.avg.den

----------------------------------------------------------------------------
(* Claims about the order of the records (Spec) *)

\* a <= b for two amounts
RLeq(a, b) == a.num * b.den <= b.num * a.den

\* C20: in a successful result every record's current spend is greater than
\* or equal to the current spend of the record after it.
C20_OrderedByCurrentSpend ==
    Succeeded =>
        \A i \in 1..(Len(response.Trends) - 1) :
            RLeq(response.Trends[i + 1].CurrentSpend,
                 response.Trends[i].CurrentSpend)

\* Category 2 spent more than category 1 in the window and comes first
C20_Witness ==
    /\ Succeeded
    /\ Len(response.Trends) = 2
    /\ response.Trends[1].CategoryID = 2
    /\ response.Trends[2].CategoryID = 1
    /\ response.Trends[1].CurrentSpend.num > response.Trends[2].CurrentSpend.num
    /\ response.Trends[2].CurrentSpend.num > 0

----------------------------------------------------------------------------
(* Claims about whole invocations (SpecCalls, SpecRepeat, SpecCancel) *)

InvDone(l) == l.pc = "done"
InvSucceeded(l) == l.pc = "done" /\ l.response.status = 200

NameOf(cid) == (CHOOSE c \in categories : c.id = cid).name

\* The total of the expense rows of uid in category cid dated in [from, to)
TotalIn(uid, cid, from, to) ==
    TotalOfFirst(Len(transactions), uid, cid, from, to)

\* The record of category cid in the result of invocation l when hist is
\* the value used as the historical average
RecordOf(l, cid, hist) ==
    BuildTrend(cid, NameOf(cid),
               [num |-> TotalIn(l.userID, cid, l.win.startDate, l.win.endDate),
                den |-> 1],
               [num |-> TotalIn(l.userID, cid, l.win.prevStartDate,
                                l.win.prevEndDate),
                den |-> 1],
               hist, l.req.Period)

\* The historical-average query of the invocation failed for category cid
HistoryFailed(l, cid) == cid \in DOMAIN l.averages /\ l.averages[cid].failed

C15_AverageIndependentOfDate ==
    \A i, j \in DOMAIN calls :
        LET a == calls[i]
            b == calls[j]
        IN  (/\ a.userID = b.userID
             /\ a.req.Period = b.req.Period
             /\ a.req.Date # b.req.Date) =>
               \A c \in DOMAIN a.averages \cap DOMAIN b.averages :
                  (/\ a.averages[c].at = b.averages[c].at
                   /\ ~a.averages[c].failed
                   /\ ~b.averages[c].failed) =>
                     a.averages[c].historicalAvg = b.averages[c].historicalAvg

\* Period day for 2024-01-01 and for 2024-01-03: different current windows,
\* and both calls got the average 10 of a row that is in neither
C15_Witness ==
    /\ InvSucceeded(calls[1]) /\ InvSucceeded(calls[2])
    /\ calls[1].userID = calls[2].userID
    /\ calls[1].req.Period = "day" /\ calls[2].req.Period = "day"
    /\ calls[1].req.Date # calls[2].req.Date
    /\ calls[1].win.startDate # calls[2].win.startDate
    /\ ~calls[1].averages[1].failed /\ ~calls[2].averages[1].failed
    /\ calls[1].averages[1].historicalAvg = [num |-> 10, den |-> 1]
    /\ calls[2].averages[1].historicalAvg = [num |-> 10, den |-> 1]

\* No historical-average query of the invocation failed
NoHistoryFailed(l) == \A c \in DOMAIN l.averages : ~l.averages[c].failed

\* The records of a result, whatever their order
RecordsOf(l) == {l.response.Trends[k] : k \in DOMAIN l.response.Trends}

\* C16: two calls with the same owner, period unit and reference date on the
\* same data return the same records whenever they are made (here for calls
\* all of whose queries were answered, and whatever the order of the records).
C16_SameResultAtAnyInstant ==
    \A i, j \in DOMAIN calls :
        LET a == calls[i]
            b == calls[j]
        IN  (/\ InvSucceeded(a) /\ InvSucceeded(b)
             /\ a.userID = b.userID /\ a.req = b.req
             /\ NoHistoryFailed(a) /\ NoHistoryFailed(b)) =>
               RecordsOf(a) = RecordsOf(b)

\* C17: no step of a call, successful or failed, changes the categories or
\* the transactions of the store.
C17_ReadOnly == [][categories' = categories /\ transactions' = transactions]_vars

\* One call has succeeded with records and the other has failed, on a store
\* that holds rows
C17_Witness ==
    /\ transactions # <<>>
    /\ \E i, j \in DOMAIN calls :
          /\ InvSucceeded(calls[i])
          /\ calls[i].response.Trends # <<>>
          /\ InvDone(calls[j])
          /\ calls[j].response.status = 500

\* C18: a call whose request was cancelled, or whose deadline passed, while
\* one of its store queries was outstanding ends without a successful
\* result and without trends.
C18_CancelledCallReturnsNoTrends ==
    \A i \in DOMAIN calls :
        (InvDone(calls[i]) /\ calls[i].ctxDone) =>
            /\ calls[i].response.status # 200
            /\ "Trends" \notin DOMAIN calls[i].response

\* The result of invocation l is the result of the call run alone: a failed
\* aggregation query gives 500, and otherwise there is one record for every
\* expense category of the user, computed from the store, the windows of
\* the invocation and what its own historical-average queries gave.
ResultAlone(l) ==
    InvDone(l) =>
        IF l.err # "nil" THEN l.response.status = 500
        ELSE LET T == l.response.Trends
             IN  /\ l.response.status = 200
                 /\ {T[k].CategoryID : k \in DOMAIN T} = ExpenseCategoryIds(l.userID)
                 /\ Len(T) = Cardinality(ExpenseCategoryIds(l.userID))
                 /\ \A k \in DOMAIN T :
                       T[k] = RecordOf(l, T[k].CategoryID,
                                 l.averages[T[k].CategoryID].historicalAvg)

\* C19: in every interleaving of the steps of the invocations over the
\* unchanged store, every step changes the variables of one invocation only,
\* and every invocation ends with the result of the call run alone.
C19_InvocationsIndependent ==
    [][/\ \A i, j \in DOMAIN calls :
             (i # j /\ calls'[i] # calls[i]) => calls'[j] = calls[j]
       /\ \A i \in DOMAIN calls : ResultAlone(calls'[i])]_vars

\* Period month: the first invocation is done with two records, one of them
\* with a previous spend, while the second has built one record of its two
C19_Witness ==
    /\ InvSucceeded(calls[1])
    /\ Len(calls[1].response.Trends) = 2
    /\ \E k \in 1..2 : calls[1].response.Trends[k].TrendDirection # "new"
    /\ calls[2].pc = "trendLoop"
    /\ calls[2].userID = 1
    /\ Len(calls[2].trends) = 1
    /\ Len(calls[2].currentRows) = 1

----------------------------------------------------------------------------
(* Claims about the period and the date of the response (Spec) *)

\* The calendar day of the clock as a date string, digit by digit
TodayWritten ==
    LET c == CivilFromDays(now \div TicksPerDay)
    IN  << Digits[(c.year \div 1000) + 1], Digits[((c.year \div 100) % 10) + 1],
           Digits[((c.year \div 10) % 10) + 1], Digits[(c.year % 10) + 1], "-",
           Digits[(c.month \div 10) + 1], Digits[(c.month % 10) + 1], "-",
           Digits[(c.day \div 10) + 1], Digits[(c.day % 10) + 1] >>

\* C21: a successful response carries the period of the request and the
\* date the windows were computed from, which lies in the current window;
\* that date is the date of the request when there is one and the server's
\* current date, written YYYY-MM-DD, when there is none.
C21_ResponsePeriodAndDate ==
    Succeeded =>
        /\ response.Period = query.period
        /\ response.Date = IF query.date = <<>> THEN TodayWritten ELSE query.date
        /\ win.startDate <= WrittenDate(response.Date)
        /\ WrittenDate(response.Date) < win.endDate

\* No date in the request of 2024-01-03: the response says 2024-01-03 and
\* the day window is that day
C21_Witness ==
    /\ Succeeded
    /\ query.date = <<>>
    /\ query.period = "day"
    /\ response.Period = "day"
    /\ response.Date = <<"2", "0", "2", "4", "-", "0", "1", "-", "0", "3">>
    /\ win.startDate = DaysFromCivil(2024, 1, 3) * TicksPerDay

----------------------------------------------------------------------------
(* The configuration values of package models and the computation alone *)

\* var PredictionConfig = PredictionWeights{0.4, 0.4, 0.2}
PredictionConfig ==
    [Current |-> Rat(4, 10), Trend |-> Rat(4, 10), Historical |-> Rat(2, 10)]

\* var TrendLimits = TrendThresholds{10.0, -10.0}
TrendLimits == [UpThreshold |-> Rat(10, 1), DownThreshold |-> Rat(-10, 1)]

\* var PredictionSettings = PredictionFactors{0.8}
PredictionSettings == [ConservativeEstimate |-> Rat(8, 10)]

\* The package-level variables are assignable: the values as declared and
\* values a deployment or a test gives them.
ConfigValues ==
    [PredictionConfig : {PredictionConfig,
                         [Current |-> Rat(5, 10), Trend |-> Rat(3, 10),
                          Historical |-> Rat(2, 10)]},
     TrendLimits : {TrendLimits,
                    [UpThreshold |-> Rat(20, 1), DownThreshold |-> Rat(-20, 1)]},
     PredictionSettings : {PredictionSettings,
                           [ConservativeEstimate |-> Rat(5, 10)]}]

ConfigAmounts == {0, 1, 4, 100, 115, 125, MaxAmount}

InitConfig ==
    /\ categories = {}
    /\ transactions = <<>>
    /\ now \in NowTimes
    /\ userID = 1
    /\ query = [period |-> "", date |-> <<>>]
    /\ pc = "call"
    /\ req = NoRequest
    /\ win = NoWindow
    /\ currentRows = <<>>
    /\ prevRows = {}
    /\ prevSpending = EmptyMap
    /\ trends = <<>>
    /\ err = "nil"
    /\ response = NoResponse
    /\ fnArgs \in [current : {Rat(n, 1) : n \in ConfigAmounts},
                   previous : {Rat(n, 1) : n \in ConfigAmounts},
                   historical : {Rat(n, 1) : n \in {0, 1, 10}},
                   period : Periods,
                   config : ConfigValues]
    /\ fnResult = NULL
    /\ calls = <<>>

NextConfig == CallBuildTrend

SpecConfig == InitConfig /\ [][NextConfig]_vars

\* the forecast the configured weights and floor factor determine
PredictionUnder(cfg, current, previous, historical) ==
    LET raw == RAdd(RAdd(RMul(current, cfg.PredictionConfig.Current),
                         RMul(TrendFactor(current, previous),
                              cfg.PredictionConfig.Trend)),
                    RMul(historical, cfg.PredictionConfig.Historical))
    IN  IF RLess(raw, Zero)
        THEN RMul(current, cfg.PredictionSettings.ConservativeEstimate)
        ELSE raw

\* the direction the configured thresholds determine
DirectionUnder(cfg, current, previous) ==
    IF RLess(Zero, previous)
    THEN LET change == RMul(RDiv(RSub(current, previous), previous), Rat(100, 1))
         IN  IF RLess(cfg.TrendLimits.UpThreshold, change) THEN "up"
             ELSE IF RLess(change, cfg.TrendLimits.DownThreshold) THEN "down"
             ELSE "stable"
    ELSE "new"

\* C22: the prediction and the direction of a computed trend are the ones
\* determined by the configured weights, floor factor and thresholds
\* (models.PredictionConfig, models.PredictionSettings, models.TrendLimits),
\* whatever values these hold.
C22_ConfiguredValuesDecide ==
    pc = "returned" =>
        /\ fnResult.PredictedSpend =
               PredictionUnder(fnArgs.config, fnArgs.current, fnArgs.previous,
                               fnArgs.historical)
        /\ fnResult.TrendDirection =
               DirectionUnder(fnArgs.config, fnArgs.current, fnArgs.previous)

----------------------------------------------------------------------------
(* Claims about the queries of an invocation (SpecCalls) *)

ExpenseCategoriesOf(uid) ==
    {c.id : c \in {x \in categories : x.user_id = uid /\ x.type = "expense"}}

\* C23: an invocation hands to the store the current-window aggregation
\* first, the previous-window aggregation second and after them only
\* historical-average queries, at most one per expense category of the user;
\* a query that failed is never issued again, a failed aggregation is the
\* last query of the invocation, and an invocation that succeeds has issued
\* exactly the two aggregations and one historical query per category.
C23_QueriesIssuedOnce ==
    \A i \in DOMAIN calls :
        LET q == calls[i].issued
        IN  /\ \A k \in DOMAIN q :
                  /\ q[k].kind = (IF k = 1 THEN "current"
                                  ELSE IF k = 2 THEN "previous" ELSE "historical")
                  /\ k <= 2 /\ q[k].failed => k = Len(q)
                  /\ k > 2 => q[k].categoryID \in ExpenseCategoriesOf(calls[i].userID)
            /\ \A j, k \in DOMAIN q : j # k /\ j > 2 /\ k > 2
                                        => q[j].categoryID # q[k].categoryID
            /\ InvSucceeded(calls[i])
                  => Len(q) = 2 + Cardinality(ExpenseCategoriesOf(calls[i].userID))

\* user 1 was answered with two records after four queries, one of the
\* historical ones failed, and the other invocation ended on its first query
C23_Witness ==
    /\ InvSucceeded(calls[1])
    /\ Len(calls[1].issued) = 4
    /\ \E k \in 3..4 : calls[1].issued[k].failed
    /\ calls[2].response.status = 500
    /\ calls[2].issued = <<Issued("current", 0, TRUE)>>

----------------------------------------------------------------------------
(* Results whose rows cannot all be read *)

\* A row of a result that Scan returned an error for (categoryID is the
\* category of the row), or the end of an iteration on an error
\* (categoryID 0): Next() returns false and rows.Err() holds the error
RowError(result, categoryID) == [result |-> result, categoryID |-> categoryID]

\* h.db.Query(prevQuery, ...) answered, and the loop over prevRows when rows
\* are lost: "if err := prevRows.Scan(...); err != nil { continue }" for the
\* rows in lost, or the iteration ended on an error before them (ended).
\* prevRows.Err() is not called.
InvQueryPrevRowErrors(i) ==
    LET l    == calls[i]
        rows == TrendAggregate(l.userID, l.win.prevStartDate, l.win.prevEndDate)
    IN  /\ l.pc = "queryPrev"
        /\ \E lost \in SUBSET rows \ {{}}, ended \in BOOLEAN :
              Update(i, [l EXCEPT
                 !.prevSpending =
                     [id \in {r.id : r \in rows \ lost} |->
                         Rat((CHOOSE r \in rows : r.id = id).amount, 1)],
                 !.pc = "trendLoop",
                 !.issued = Append(@, Issued("previous", 0, FALSE)),
                 !.rowErrors = @ \cup
                     (IF ended THEN {RowError("previous", 0)}
                      ELSE {RowError("previous", r.id) : r \in lost})])
        /\ UNCHANGED <<store, now, single>>

\* One pass of for currentRows.Next() in which Scan returns an error:
\* "continue", nothing is appended and no historical average is asked for
InvSkipCurrentRow(i) ==
    LET l == calls[i]
    IN  /\ l.pc = "trendLoop"
        /\ l.currentRows # <<>>
        /\ Update(i, [l EXCEPT
              !.currentRows = Tail(@),
              !.rowErrors = @ \cup {RowError("current", Head(l.currentRows).id)}])
        /\ UNCHANGED <<store, now, single>>

\* currentRows.Next() returns false on an error while rows remain: the loop
\* ends, and currentRows.Err() is not called
InvCurrentRowsEnd(i) ==
    LET l == calls[i]
    IN  /\ l.pc = "trendLoop"
        /\ l.currentRows # <<>>
        /\ Update(i, [l EXCEPT
              !.currentRows = <<>>,
              !.rowErrors = @ \cup {RowError("current", 0)}])
        /\ UNCHANGED <<store, now, single>>

\* One invocation of user 1 for 2024-01-01 on a store whose results may not
\* be readable to the end
InitRowErrors ==
    /\ categories = CategoryTable
    /\ transactions \in TablesOf(CallRows, MaxTx)
    /\ now \in NowTimes
    /\ \E p \in Periods :
          calls = [i \in {1} |->
                     NewCall(1, [period |-> p, date |-> FormatDate(Base)])]
    /\ SingleIdle

NextRowErrors ==
    \/ NextCalls
    \/ \E i \in DOMAIN calls : InvQueryPrevRowErrors(i)
    \/ \E i \in DOMAIN calls : InvSkipCurrentRow(i)
    \/ \E i \in DOMAIN calls : InvCurrentRowsEnd(i)

SpecRowErrors == InitRowErrors /\ [][NextRowErrors]_vars

\* C24: an invocation that could not read a row of the current-window
\* result or of the previous-window result, or whose iteration over a
\* result ended on an error, does not answer with success.
C24_RowErrorFailsCall ==
    \A i \in DOMAIN calls :
        calls[i].rowErrors # {} => ~InvSucceeded(calls[i])

----------------------------------------------------------------------------
(* The reference date and the windows (SpecWindows) *)

\* C25: for every period unit and reference date, midnight of the reference
\* date lies in the current window and not in the previous one, and the
\* current window starts at midnight: on the reference date for day, at most
\* six days before it for week, on day 1 of the reference month for month.
C25_ReferenceDateInCurrentWindow ==
    WindowsComputed =>
        LET ref == WrittenDate(req.Date)
        IN  /\ win.startDate <= ref
            /\ ref < win.endDate
            /\ IsMidnight(win.startDate)
            /\ ~(win.prevStartDate <= ref /\ ref < win.prevEndDate)
            /\ req.Period = "day" => win.startDate = ref
            /\ req.Period = "week" => ref - win.startDate <= 6 * OneDay
            /\ req.Period = "month" =>
                  win.startDate =
                      FirstOf(WrittenYear(req.Date), WrittenMonth(req.Date))

\* The day window of 2024-02-29 starts on 2024-02-29 and ends on 2024-03-01
C25_Witness ==
    /\ WindowsComputed
    /\ req.Period = "day"
    /\ req.Date = <<"2", "0", "2", "4", "-", "0", "2", "-", "2", "9">>
    /\ win.startDate = DaysFromCivil(2024, 2, 29) * TicksPerDay
    /\ win.endDate = DaysFromCivil(2024, 3, 1) * TicksPerDay

----------------------------------------------------------------------------
(* The sign of the forecast (SpecPredict) *)

\* C26: for non-negative current spend, previous spend and historical
\* average the predicted spend is never negative, and it is 0 when the
\* current spend is 0 and the weighted value is negative.
C26_PredictionNotNegative ==
    Returned =>
        /\ fnResult.PredictedSpend.den > 0
        /\ fnResult.PredictedSpend.num >= 0
        /\ (ArgCurrent = 0 /\ RawTenths < 0) => fnResult.PredictedSpend.num = 0

\* current = 0, previous = 100, historical = 10: raw -38, predicted 0
C26_Witness ==
    /\ Returned
    /\ fnArgs.current = [num |-> 0, den |-> 1]
    /\ fnArgs.previous = [num |-> 100, den |-> 1]
    /\ fnArgs.historical = [num |-> 10, den |-> 1]
    /\ RawTenths < 0
    /\ fnResult.PredictedSpend = [num |-> 0, den |-> 1]

----------------------------------------------------------------------------
(* calculatePrediction at two historical averages *)

\* Two direct calls of calculatePrediction that differ in the historical
\* average only: [low, high]
CallPredictionTwice ==
    /\ pc = "call"
    /\ fnResult' =
          [low  |-> calculatePrediction(fnArgs.current, fnArgs.previous,
                                        fnArgs.historical, fnArgs.period),
           high |-> calculatePrediction(fnArgs.current, fnArgs.previous,
                                        fnArgs.raised, fnArgs.period)]
    /\ pc' = "returned"
    /\ UNCHANGED <<store, now, query, userID, req, win, currentRows, prevRows,
                   prevSpending, trends, err, response, fnArgs, calls>>

PairAmounts == 0..MaxAmount

InitPredictPair ==
    /\ categories = {}
    /\ transactions = <<>>
    /\ now \in NowTimes
    /\ userID = 1
    /\ query = [period |-> "", date |-> <<>>]
    /\ pc = "call"
    /\ req = NoRequest
    /\ win = NoWindow
    /\ currentRows = <<>>
    /\ prevRows = {}
    /\ prevSpending = EmptyMap
    /\ trends = <<>>
    /\ err = "nil"
    /\ response = NoResponse
    /\ \E c \in PairAmounts, p \in PairAmounts, h \in PairAmounts,
          r \in PairAmounts, per \in Periods :
          /\ h <= r
          /\ fnArgs = [current |-> Rat(c, 1), previous |-> Rat(p, 1),
                       historical |-> Rat(h, 1), raised |-> Rat(r, 1),
                       period |-> per]
    /\ fnResult = NULL
    /\ calls = <<>>

NextPredictPair == CallPredictionTwice

SpecPredictPair == InitPredictPair /\ [][NextPredictPair]_vars

\* ten times current*0.4 + trendDelta*0.4 + historical*0.2, in whole numbers
PairRawTenths(historical) ==
    4 * fnArgs.current.num
    + 4 * (IF fnArgs.previous.num > 0
           THEN fnArgs.current.num - fnArgs.previous.num ELSE 0)
    + 2 * historical.num

----------------------------------------------------------------------------
(* A call of user 1 while another user's rows change *)

MaxOtherRows == 1

\* Rows of transactions owned by user 2: in its own category 4 or pointing
\* at category 1 of user 1, dated in the windows and lookbacks of the call
OtherRows ==
    [user_id : {2}, category_id : {1, 4}, type : {"expense"}, amount : {10},
     date : {Base} \cup LookbackEdges]

\* Rows of categories owned by user 2
OtherCategories ==
    { [id |-> 4, user_id |-> 2, name |-> "c4", type |-> "expense"],
      [id |-> 4, user_id |-> 2, name |-> "c1", type |-> "income"] }

OtherRowIds == {k \in DOMAIN transactions : transactions[k].user_id # 1}

RemoveAt(s, k) == [j \in 1..(Len(s) - 1) |-> IF j < k THEN s[j] ELSE s[j + 1]]

\* INSERT INTO transactions by another user
OtherUserInserts ==
    /\ Cardinality(OtherRowIds) < MaxOtherRows
    /\ \E r \in OtherRows : transactions' = Append(transactions, r)
    /\ UNCHANGED <<categories, now, single, calls>>

\* UPDATE transactions of a row of another user
OtherUserUpdates ==
    /\ \E k \in OtherRowIds :
          \E r \in OtherRows \ {transactions[k]} :
             transactions' = [transactions EXCEPT ![k] = r]
    /\ UNCHANGED <<categories, now, single, calls>>

\* DELETE FROM transactions of a row of another user
OtherUserDeletes ==
    /\ \E k \in OtherRowIds : transactions' = RemoveAt(transactions, k)
    /\ UNCHANGED <<categories, now, single, calls>>

\* INSERT, UPDATE or DELETE on categories by another user: its categories
\* become any set of rows with distinct ids
OtherUserWritesCategories ==
    /\ \E S \in SUBSET OtherCategories :
          /\ \A a, b \in S : a.id = b.id => a = b
          /\ categories' = {c \in categories : c.user_id = 1} \cup S
          /\ categories' # categories
    /\ UNCHANGED <<transactions, now, single, calls>>

InitIsolation ==
    /\ categories = CategoryTable
    /\ transactions \in TablesOf(CallRows, MaxTx)
    /\ now \in NowTimes
    /\ \E p \in Periods :
          calls = [i \in {1} |->
                     NewCall(1, [period |-> p, date |-> FormatDate(Base)])]
    /\ SingleIdle

NextIsolation ==
    \/ NextCalls
    \/ OtherUserInserts
    \/ OtherUserUpdates
    \/ OtherUserDeletes
    \/ OtherUserWritesCategories

SpecIsolation == InitIsolation /\ [][NextIsolation]_vars

\* What the store answers to the queries of a call of uid for a period unit
\* and windows w, and the records built from the answers
AnswersTo(uid, period, w) ==
    LET current  == TrendAggregate(uid, w.startDate, w.endDate)
        previous == TrendAggregate(uid, w.prevStartDate, w.prevEndDate)
        prevOf   == [id \in {r.id : r \in previous} |->
                        Rat((CHOOSE r \in previous : r.id = id).amount, 1)]
        hist     == [id \in {r.id : r \in current} |->
                        HistoricalAverage(uid, id, period, now)]
    IN  [current |-> current, prevSpending |-> prevOf, historical |-> hist,
         records |-> {BuildTrend(r.id, r.name, Rat(r.amount, 1),
                                 MapGet(prevOf, r.id), hist[r.id], period)
                      : r \in current}]

\* C28: what a call of user 1 holds at any moment - the previous spend of
\* each category, each historical average it was given, the current spend of
\* each record and, once it has succeeded, its records - is what the store
\* as it is now answers to the same queries, however other users have
\* inserted, changed or removed transactions and categories since the call
\* read the store, transactions pointing at a category of user 1 included.
C28_OwnerIsolation ==
    \A i \in DOMAIN calls :
        LET l == calls[i]
            a == AnswersTo(l.userID, l.req.Period, l.win)
        IN  /\ l.pc = "trendLoop" => l.prevSpending = a.prevSpending
            /\ \A c \in DOMAIN l.averages :
                  ~l.averages[c].failed
                     => l.averages[c].historicalAvg = a.historical[c]
            /\ \A k \in DOMAIN l.trends :
                  \E r \in a.current :
                     /\ r.id = l.trends[k].CategoryID
                     /\ Rat(r.amount, 1) = l.trends[k].CurrentSpend
            /\ (InvSucceeded(l) /\ NoHistoryFailed(l))
                  => RecordsOf(l) = a.records

\* User 1 was answered with a current spend of 10 in category 1, its own
\* row, while the store holds a row of user 2 of the same date that points
\* at category 1
C28_Witness ==
    /\ InvSucceeded(calls[1])
    /\ NoHistoryFailed(calls[1])
    /\ \E k \in DOMAIN transactions :
          /\ transactions[k].user_id = 2
          /\ transactions[k].category_id = 1
          /\ transactions[k].date = Base
    /\ \E k \in DOMAIN calls[1].response.Trends :
          /\ calls[1].response.Trends[k].CategoryID = 1
          /\ calls[1].response.Trends[k].CurrentSpend = [num |-> 10, den |-> 1]

----------------------------------------------------------------------------
(* GetSpendingAnalytics *)

\* LEFT JOIN transactions t ON c.id = t.category_id AND t.type = 'expense'
AnalyticsOn(c, t) == c.id = t.category_id /\ t.type = "expense"

\* WHERE c.user_id = $1 AND c.type = 'expense', with AND t.date >= $n when
\* start_date is given and AND t.date <= $n when end_date is given (the
\* empty string is a parameter not given).  A comparison with the NULL
\* t.date of a category without a matching transaction is not true.
AnalyticsWhere(uid, startDate, endDate, r) ==
    /\ r.c.user_id = uid
    /\ r.c.type = "expense"
    /\ startDate # <<>> =>
          r.tid # 0 /\ transactions[r.tid].date >= WrittenDate(startDate)
    /\ endDate # <<>> =>
          r.tid # 0 /\ transactions[r.tid].date <= WrittenDate(endDate)

\* the rows c.id, c.name, COALESCE(SUM(t.amount), 0) of the query
AnalyticsAggregate(uid, startDate, endDate) ==
    LET matches == [c \in categories |->
                      {i \in DOMAIN transactions :
                          AnalyticsOn(c, transactions[i])}]
        joined  == LeftJoin(categories, matches)
    IN  GroupSum(transactions,
                 {r \in joined : AnalyticsWhere(uid, startDate, endDate, r)})

RECURSIVE SumOfAmounts(_)
SumOfAmounts(rows) ==
    IF rows = <<>> THEN 0 ELSE Head(rows).amount + SumOfAmounts(Tail(rows))

\* The handler from the query to the answer: 500 when the query fails, else
\* 200 with one models.SpendingByCategory per row, in the order of the
\* rows, each with its percentage of totalSpending (0 when that is 0).
\* The three columns of every row are taken to scan without error.
GetSpendingAnalytics ==
    /\ pc = "analytics"
    /\ \/ response' = [status |-> 500,
                       error |-> "Failed to get spending analytics"]
       \/ \E rows \in OrderByAmountDesc(
                 AnalyticsAggregate(userID, query.start_date, query.end_date)) :
             LET totalSpending == SumOfAmounts(rows)
             IN  response' =
                    [status |-> 200,
                     analytics |->
                        [k \in DOMAIN rows |->
                           [CategoryID |-> rows[k].id,
                            CategoryName |-> rows[k].name,
                            Amount |-> Rat(rows[k].amount, 1),
                            Percentage |->
                               IF totalSpending > 0
                               THEN RMul(Rat(rows[k].amount, totalSpending),
                                         Rat(100, 1))
                               ELSE Zero]]]
    /\ pc' = "done"
    /\ UNCHANGED <<store, now, query, userID, req, win, currentRows, prevRows,
                   prevSpending, trends, err, fnArgs, fnResult, calls>>

\* start_date and end_date: not given, or 2024-01-01
RangeDates == {<<>>, FormatDate(Base)}

InitAnalytics ==
    /\ categories = CategoryTable
    /\ transactions \in TxTables(MaxTx)
    /\ now \in NowTimes
    /\ userID = 1
    /\ query \in [start_date : RangeDates, end_date : RangeDates]
    /\ pc = "analytics"
    /\ req = NoRequest
    /\ win = NoWindow
    /\ currentRows = <<>>
    /\ prevRows = {}
    /\ prevSpending = EmptyMap
    /\ trends = <<>>
    /\ err = "nil"
    /\ response = NoResponse
    /\ fnArgs = NULL
    /\ fnResult = NULL
    /\ calls = <<>>

NextAnalytics == GetSpendingAnalytics

SpecAnalytics == InitAnalytics /\ [][NextAnalytics]_vars

\* An expense transaction of category cid dated in the requested range
InRange(t, cid) ==
    /\ t.category_id = cid
    /\ t.type = "expense"
    /\ query.start_date # <<>> => t.date >= WrittenDate(query.start_date)
    /\ query.end_date # <<>> => t.date <= WrittenDate(query.end_date)

\* C29: a successful spending analytics answer lists every expense category
\* of the user exactly once, with amount 0 and percentage 0 for a category
\* without an expense transaction in the requested range, whether or not
\* start_date and end_date are given; each percentage is amount/total*100
\* when the total is positive and 0 when it is 0.
C29_AnalyticsListsEveryCategory ==
    (pc = "done" /\ response.status = 200) =>
        LET A == response.analytics
            total == SumOfAmounts([k \in DOMAIN A |-> [amount |-> A[k].Amount.num]])
        IN  /\ {A[k].CategoryID : k \in DOMAIN A} = ExpenseCategoryIds(userID)
            /\ \A j, k \in DOMAIN A : A[j].CategoryID = A[k].CategoryID => j = k
            /\ \A k \in DOMAIN A :
                  /\ (\A i \in DOMAIN transactions :
                         ~InRange(transactions[i], A[k].CategoryID))
                       => A[k].Amount.num = 0 /\ A[k].Percentage.num = 0
                  /\ total > 0 =>
                        A[k].Percentage.num * total
                           = 100 * A[k].Amount.num * A[k].Percentage.den
                  /\ total = 0 => A[k].Percentage.num = 0

----------------------------------------------------------------------------
(* AuthMiddleware in front of the handlers of the protected group *)

\* strings.TrimPrefix(authHeader, "Bearer "): a header is the sequence of
\* its parts, and a header without the prefix is left as it is
TrimPrefixBearer(authHeader) ==
    IF authHeader # <<>> /\ Head(authHeader) = "Bearer "
    THEN Tail(authHeader) ELSE authHeader

\* auth.ValidateJWT: (claims, err).  The tokens that auth.GenerateJWT issued
\* at login to users 1 and 2 are valid and carry the id and the email of
\* their user; every other string is refused.
ValidateJWT(tokenString) ==
    CASE tokenString = <<"jwt1">> ->
             [ok |-> TRUE, claims |-> [UserID |-> 1, Email |-> "u1"]]
      [] tokenString = <<"jwt2">> ->
             [ok |-> TRUE, claims |-> [UserID |-> 2, Email |-> "u2"]]
      [] OTHER ->
             [ok |-> FALSE, claims |-> [UserID |-> 0, Email |-> ""]]

\* The handlers modelled among those registered on the group that uses
\* h.AuthMiddleware(): the position at which each one starts
ProtectedHandlers ==
    [p \in {"/analytics/trends", "/analytics/spending"} |->
        IF p = "/analytics/trends" THEN "bind" ELSE "analytics"]

\* 401 for a refused token without c.Abort(): the chain goes on to the
\* handler, with no user_id in the context.  C30 tells it from the code's
AuthMiddlewareWithoutAbort ==
    /\ pc = "auth"
    /\ LET authHeader == query.authorization
           v == ValidateJWT(TrimPrefixBearer(authHeader))
       IN  IF authHeader = <<>>
           THEN /\ response' = [status |-> 401,
                                error |-> "Authorization header required"]
                /\ pc' = "done"
                /\ UNCHANGED userID
           ELSE IF ~v.ok
           THEN /\ response' = [status |-> 401, error |-> "Invalid token"]
                /\ pc' = ProtectedHandlers[query.path]
                /\ UNCHANGED userID
           ELSE /\ userID' = v.claims.UserID
                /\ pc' = ProtectedHandlers[query.path]
                /\ UNCHANGED response
    /\ UNCHANGED <<store, now, query, req, win, currentRows, prevRows,
                   prevSpending, trends, err, fnArgs, fnResult, calls>>

\* The middleware of the protected group: 401 and c.Abort() without an
\* Authorization header or with a token that ValidateJWT refuses; else
\* c.Set("user_id", claims.UserID) and c.Next(), which runs the handler of
\* the route
AuthMiddleware ==
    /\ pc = "auth"
    /\ LET authHeader == query.authorization
           v == ValidateJWT(TrimPrefixBearer(authHeader))
       IN  IF authHeader = <<>>
           THEN /\ response' = [status |-> 401,
                                error |-> "Authorization header required"]
                /\ pc' = "done"
                /\ UNCHANGED userID
           ELSE IF ~v.ok
           THEN /\ response' = [status |-> 401, error |-> "Invalid token"]
                /\ pc' = "done"
                /\ UNCHANGED userID
           ELSE /\ userID' = v.claims.UserID
                /\ pc' = ProtectedHandlers[query.path]
                /\ UNCHANGED response
    /\ UNCHANGED <<store, now, query, req, win, currentRows, prevRows,
                   prevSpending, trends, err, fnArgs, fnResult, calls>>

\* Authorization headers: none, the tokens of both users with and without
\* the prefix, a token nobody issued, the prefix alone and the prefix twice
AuthHeaders ==
    { <<>>, <<"Bearer ", "jwt1">>, <<"Bearer ", "jwt2">>, <<"jwt1">>,
      <<"Bearer ", "forged">>, <<"Bearer ">>, <<"Bearer ", "Bearer ", "jwt1">> }

\* A request to a route of the protected group has arrived; the context
\* holds no user_id yet (c.GetInt gives 0)
InitAuth ==
    /\ categories = CategoryTable
    /\ transactions \in TxTables(1)
    /\ now \in NowTimes
    /\ userID = 0
    /\ query \in [path : DOMAIN ProtectedHandlers,
                  authorization : AuthHeaders,
                  period : {"day", "month", ""},
                  date : {FormatDate(Base)},
                  start_date : {<<>>},
                  end_date : RangeDates]
    /\ pc = "auth"
    /\ req = NoRequest
    /\ win = NoWindow
    /\ currentRows = <<>>
    /\ prevRows = {}
    /\ prevSpending = EmptyMap
    /\ trends = <<>>
    /\ err = "nil"
    /\ response = NoResponse
    /\ fnArgs = NULL
    /\ fnResult = NULL
    /\ calls = <<>>

NextAuth == AuthMiddleware \/ Next \/ GetSpendingAnalytics

SpecAuth == InitAuth /\ [][NextAuth]_vars

\* The Authorization header of the request holds a token that was issued
TokenValid ==
    /\ query.authorization # <<>>
    /\ \E tok \in {"jwt1", "jwt2"} :
          query.authorization \in {<<tok>>, <<"Bearer ", tok>>}

TokenUser ==
    IF query.authorization \in {<<"jwt1">>, <<"Bearer ", "jwt1">>} THEN 1 ELSE 2

====
